---- MODULE Spec2Model ----
(***************************************************************************)
(* A model of driveDog.py: DriveSync.get_drive_files, download_file,       *)
(* move_files, upload_log_file, md5, sync and start_continuous_sync.       *)
(*                                                                         *)
(* The remote Drive is a small folder tree.  The output tree and the       *)
(* staging tree are partial functions from relative paths to contents: a   *)
(* path in the DOMAIN is a file that exists.  A name is a sequence of      *)
(* tokens (so that str.startswith is a prefix test) and a relative path is *)
(* the sequence of the names os.path.join puts together.                   *)
(***************************************************************************)
EXTENDS Integers, Sequences, FiniteSets, TLC

\* ---------------------------------------------------------------- bounds
NContents == 2      \* distinct non-empty file contents
PageMax == 2        \* most entries the remote returns in one page
NChunks == 2        \* next_chunk() calls a download takes
MaxChanges == 1     \* times the remote content is modified while the loop runs
MaxProduced == 1    \* files an external producer puts into the staging tree

Contents == 1..NContents
Trunc == 0          \* what open(path, 'wb') leaves before f.write: no bytes

\* ---------------------------------------------------------------- names
LogPrefix == <<"drive_sync.log">>
NameA == <<"a">>
NameF == <<"f">>
NameX == <<"X">>
NameY == <<"Y">>
NameLog == <<"drive_sync.log">>
NameLog1 == <<"drive_sync.log", ".1">>
NameLogDir == <<"drive_sync.log", ".d">>
NameG == <<"g">>

\* str.startswith
StartsWith(s, prefix) ==
    /\ Len(s) >= Len(prefix)
    /\ SubSeq(s, 1, Len(prefix)) = prefix

\* os.path.join(name, path)
Join(name, path) == <<name>> \o path

\* os.path.dirname / os.path.relpath(root, intake_dir) of a file's path
Dirname(path) == SubSeq(path, 1, Len(path) - 1)

\* hashlib.md5().hexdigest(): a digest is never None and differs for
\* different contents
Hexdigest(c) == <<"md5", c>>
None == <<>>

\* ---------------------------------------------------------------- remote
Root == "root"
Folders == {"root", "nX", "nY", "nD"}
Leaves == {"n1", "n2", "n3", "n4", "nL", "nL1"}
FolderMime == "application/vnd.google-apps.folder"

name ==
    [i \in Folders \cup Leaves |->
        CASE i = "n1" -> NameA
          [] i = "n3" -> NameA
          [] i = "n2" -> NameF
          [] i = "nX" -> NameX
          [] i = "nY" -> NameY
          [] i = "nL" -> NameLog
          [] i = "nL1" -> NameLog1
          [] i = "nD" -> NameLogDir
          [] i = "n4" -> NameG
          [] OTHER -> <<>>]

mimeType == [i \in Folders \cup Leaves |-> IF i \in Folders THEN FolderMime ELSE "file"]

\* The relative paths of the model: a and X/Y/f
PathA == <<NameA>>
PathF == <<NameX, NameY, NameF>>
Paths == {PathA, PathF}

\* The children of the root, in the order the remote lists them: with or
\* without the leaf n1, with or without a second leaf n3 of the same name.
RootVariants ==
    { <<"n1", "nL", "nX">>,
      <<"nL", "nX">>,
      <<"n1", "nL", "nX", "n3">> }

\* ---------------------------------------------------------------- files
Put(f, p, c) == [q \in (DOMAIN f) \cup {p} |-> IF q = p THEN c ELSE f[q]]
Del(f, p) == [q \in (DOMAIN f) \ {p} |-> f[q]]
Trees(P, C) == UNION {[D -> C] : D \in SUBSET P}
EmptyTree == [q \in {} |-> 0]

\* the orders in which a directory scan may return the files of S
Orderings(S) ==
    {s \in [1..Cardinality(S) -> S] : \A i, j \in 1..Cardinality(S) : s[i] = s[j] => i = j}

\* ---------------------------------------------------------------- state
VARIABLES
    children,     \* remote: folder id -> the ids of its children, in listing order
    content,      \* remote: leaf id -> its content
    hashed,       \* remote: the leaves that carry an md5Checksum
    output,       \* the output tree (self.output_folder): path -> content
    staging,      \* the staging tree (self.local_folder): path -> content
    pc,           \* where start_continuous_sync / sync stands
    stack,        \* get_drive_files: the frames of the recursion, root first
    drive_files,  \* sync: the list get_drive_files returned
    idx,          \* sync: position of the for loop over drive_files
    dl,           \* download_file: chunks received and the bytes buffered
    walk,         \* os.walk: directories still to visit, files of the current one
    hist,         \* what the current cycle has done so far (observation only)
    env           \* how often the world outside has acted: Drive edits, staged files

vars == <<children, content, hashed, output, staging, pc, stack, drive_files,
          idx, dl, walk, hist, env>>
remote == <<children, content, hashed>>

\* ---------------------------------------------------------------- history
NoHist ==
    [ phases   |-> <<>>,     \* phases entered, in order
      examined |-> <<>>,     \* per examined entry: what the detector decided
      faults   |-> {},       \* kinds of failure met
      failed   |-> {},       \* positions in drive_files whose download failed
      listCall |-> <<>>,     \* <<folder, pageToken>> of the list call that raised
      writes   |-> {},       \* <<phase, path>> of every write to the output tree
      removed  |-> {},       \* output paths os.remove has deleted in move_files
      copied   |-> {},       \* staged paths copied into the output tree
      atMerge  |-> EmptyTree,\* the staging tree when move_files started
      purged   |-> {},       \* staged paths the purge tried to delete
      atStart  |-> {},       \* the files of the output tree when sync() was called
      merged   |-> EmptyTree,\* the content copied to the output tree, per staged path
      uncopied |-> {},       \* staged paths deleted with a content that was not copied
      touched  |-> {},       \* listed remote leaves modified since they were listed
      uploads  |-> 0,        \* calls of upload_log_file
      signal   |-> "none",   \* where the cycle stood when the interrupt came
      prev     |-> [clean |-> FALSE, overlaid |-> FALSE] ]  \* the cycle before

Enter(h, phase) == [h EXCEPT !.phases = Append(@, phase)]
Fault(h, kind) == [h EXCEPT !.faults = @ \cup {kind}]
Wrote(h, phase, p) == [h EXCEPT !.writes = @ \cup {<<phase, p>>}]

\* The summary of a cycle that the next one keeps, made when sync() is
\* called again.  clean: every phase ran
\* and no list call, download, step of move_files or staged delete failed.
\* overlaid: it was clean, and move_files copied a staged file onto the path
\* of a listed entry whose md5Checksum is not the digest of the staged
\* content.
Clean(h) ==
    /\ h.uploads = 1
    /\ h.faults \cap {"list", "fetch", "mkdir", "remove", "copy", "delete"} = {}

Summary(h, listing) ==
    [ clean |-> Clean(h),
      overlaid |-> /\ Clean(h)
                   /\ \E p \in h.copied : \E k \in 1..Len(listing) :
                        /\ listing[k].path = p
                        /\ listing[k].md5Checksum # Hexdigest(h.merged[p]) ]

\* ---------------------------------------------------------------- listing
\* one element of response['files']
Item(i) ==
    [ id |-> i, name |-> name[i], mimeType |-> mimeType[i],
      md5Checksum |-> IF i \in hashed THEN Hexdigest(content[i]) ELSE None,
      path |-> <<>> ]

NewFrame(folder) ==
    [ folder |-> folder, token |-> 0, pending |-> <<>>, results |-> <<>>,
      done |-> FALSE ]

\* mutant of IsLogName: the name is compared with == instead of startswith
IsLogNameExact(n) == n = LogPrefix

\* the name test of get_drive_files
IsLogName(n) == StartsWith(n, LogPrefix)

\* mutant of Prefixed: the path of a sub-item is left as the sub-call made it
PrefixedNot(folder, subs) == subs

\* sub_item['path'] = os.path.join(item['name'], sub_item.get('path', ''))
Prefixed(folder, subs) ==
    [k \in 1..Len(subs) |-> [subs[k] EXCEPT !.path = Join(name[folder], @)]]

SetTop(st, f) == [st EXCEPT ![Len(st)] = f]

\* get_drive_files from the response of a list call up to its next list
\* call: the for loop over the page's items, the recursion into a folder
\* (a new frame that has not called yet), the return to the caller.
RECURSIVE Unwind(_)
Unwind(st) ==
    LET top == st[Len(st)] IN
    IF top.pending # <<>> THEN
        LET item == Head(top.pending)
            rest == [top EXCEPT !.pending = Tail(@)]
        IN  IF IsLogName(item.name) THEN Unwind(SetTop(st, rest))
            ELSE IF item.mimeType = FolderMime
                 THEN Append(SetTop(st, rest), NewFrame(item.id))
                 ELSE Unwind(SetTop(st,
                        [rest EXCEPT !.results = Append(@, [item EXCEPT !.path = <<item.name>>])]))
    ELSE IF top.token # 0 THEN st
    ELSE IF Len(st) = 1 THEN <<[top EXCEPT !.done = TRUE]>>
    ELSE LET caller == st[Len(st) - 1]
             back == [caller EXCEPT !.results = @ \o Prefixed(top.folder, top.results)]
         IN  Unwind(SetTop(SubSeq(st, 1, Len(st) - 1), back))

\* what files().list(q, pageToken).execute() returns: k entries and the
\* token of the rest, if any
Page(folder, token, k) ==
    LET kids == children[folder]
        last == IF token + k < Len(kids) THEN token + k ELSE Len(kids)
    IN  [ files |-> [j \in 1..(last - token) |-> Item(kids[token + j])],
          nextPageToken |-> IF last < Len(kids) THEN last ELSE 0 ]

AfterPage(st, resp) ==
    Unwind(SetTop(st, [st[Len(st)] EXCEPT !.pending = resp.files,
                                          !.token = resp.nextPageToken]))

\* sync() starts: time.sleep has returned, or the first iteration
StartCycle ==
    /\ pc = "sleep"
    /\ pc' = "list"
    /\ stack' = <<NewFrame(Root)>>
    /\ drive_files' = <<>>
    /\ idx' = 0
    /\ hist' = Enter([NoHist EXCEPT !.prev = Summary(hist, drive_files),
                                    !.atStart = DOMAIN output], "LIST")
    /\ UNCHANGED <<remote, env, output, staging, dl, walk>>

\* one files().list(...).execute() of the innermost get_drive_files, with
\* the processing of its page
ListPage ==
    /\ pc = "list"
    /\ \E k \in 1..PageMax :
         LET top == stack[Len(stack)]
             st == AfterPage(stack, Page(top.folder, top.token, k))
         IN  IF st[1].done
             THEN /\ stack' = <<>>
                  /\ drive_files' = st[1].results
                  /\ idx' = 1
                  /\ pc' = "examine"
                  /\ hist' = Enter(hist, "RECONCILE")
             ELSE /\ stack' = st
                  /\ UNCHANGED <<drive_files, idx, pc, hist>>
    /\ UNCHANGED <<remote, env, output, staging, dl, walk>>

\* mutant of ListFails: the except clause of get_drive_files leaves its
\* loop instead of re-raising, and sync() goes on with the entries the root
\* call has collected so far
ListSwallowed ==
    /\ pc = "list"
    /\ pc' = "examine"
    /\ idx' = 1
    /\ drive_files' = stack[1].results
    /\ stack' = <<>>
    /\ hist' = Enter(Fault(hist, "list"), "RECONCILE")
    /\ UNCHANGED <<remote, env, output, staging, dl, walk>>

\* the list call raises: each frame logs and re-raises, sync() logs
\* "Sync error" and returns
ListFails ==
    /\ pc = "list"
    /\ pc' = "sleep"
    /\ stack' = <<>>
    /\ hist' = [Fault(hist, "list") EXCEPT
                  !.listCall = <<stack[Len(stack)].folder, stack[Len(stack)].token>>]
    /\ UNCHANGED <<remote, env, output, staging, drive_files, idx, dl, walk>>

\* ---------------------------------------------------------------- reconcile
NoDownload == [received |-> 0, buf |-> Trunc]
NoWalk == [dirs |-> <<>>, files |-> <<>>]

\* md5(file_path): the digest of the file, None when reading it raises
Md5(tree, p, readable) == IF readable THEN Hexdigest(tree[p]) ELSE None

\* mutant of UpToDate: the test inverted (local_md5 != drive_md5)
UpToDateInverted(local_md5, drive_md5) == local_md5 # drive_md5

\* the test of sync(): os.path.exists(local_path) and local_md5 == drive_md5
UpToDate(local_md5, drive_md5) == local_md5 = drive_md5

Examined(h, e, local, fetch) ==
    [h EXCEPT !.examined = Append(@,
        [i |-> idx, path |-> e.path, existed |-> e.path \in DOMAIN output,
         local |-> local, drive |-> e.md5Checksum, fetch |-> fetch])]

\* one turn of the for loop of sync() up to `continue` or to the call of
\* download_file
Examine ==
    /\ pc = "examine"
    /\ idx <= Len(drive_files)
    /\ LET e == drive_files[idx]
           local_path == e.path
       IN  IF local_path \in DOMAIN output
           THEN \E readable \in BOOLEAN :
                  LET local_md5 == Md5(output, local_path, readable)
                      h == IF readable THEN hist ELSE Fault(hist, "hash")
                  IN  IF UpToDate(local_md5, e.md5Checksum)
                      THEN /\ idx' = idx + 1
                           /\ hist' = Examined(h, e, local_md5, FALSE)
                           /\ UNCHANGED <<pc, dl>>
                      ELSE /\ pc' = "download"
                           /\ dl' = NoDownload
                           /\ hist' = Examined(h, e, local_md5, TRUE)
                           /\ UNCHANGED idx
           ELSE /\ pc' = "download"
                /\ dl' = NoDownload
                /\ hist' = Examined(hist, e, None, TRUE)
                /\ UNCHANGED idx
    /\ UNCHANGED <<remote, env, output, staging, stack, drive_files, walk>>

\* the except clause of download_file is reached; "chunk" when it was
\* next_chunk that raised
FetchFault(h) ==
    IF pc = "download" THEN Fault(Fault(h, "fetch"), "chunk") ELSE Fault(h, "fetch")

\* mutant of FetchFailed: download_file has no except clause, and the
\* exception leaves sync()
FetchRaises ==
    /\ pc' = "sleep"
    /\ idx' = idx
    /\ dl' = NoDownload
    /\ hist' = [FetchFault(hist) EXCEPT !.failed = @ \cup {idx}]

\* download_file returns False: the except clause logged the error
FetchFailed ==
    /\ pc' = "examine"
    /\ idx' = idx + 1
    /\ dl' = NoDownload
    /\ hist' = [FetchFault(hist) EXCEPT !.failed = @ \cup {idx}]

\* mutant of NextChunk: MediaIoBaseDownload is given the opened file
\* instead of a BytesIO buffer, so the first chunk already creates the file
NextChunkToFile ==
    /\ pc = "download"
    /\ \/ /\ FetchFailed
          /\ UNCHANGED output
       \/ /\ dl' = [received |-> dl.received + 1,
                    buf |-> IF dl.received + 1 = NChunks
                            THEN content[drive_files[idx].id] ELSE Trunc]
          /\ pc' = IF dl.received + 1 = NChunks THEN "open" ELSE "download"
          /\ output' = Put(output, drive_files[idx].path, Trunc)
          /\ UNCHANGED <<idx, hist>>
    /\ UNCHANGED <<remote, env, staging, stack, drive_files, walk>>

\* downloader.next_chunk(): raises, or delivers the next chunk
NextChunk ==
    /\ pc = "download"
    /\ \/ /\ FetchFailed
          /\ UNCHANGED output
       \/ /\ dl' = [received |-> dl.received + 1,
                    buf |-> IF dl.received + 1 = NChunks
                            THEN content[drive_files[idx].id] ELSE Trunc]
          /\ pc' = IF dl.received + 1 = NChunks THEN "open" ELSE "download"
          /\ UNCHANGED <<idx, hist, output>>
    /\ UNCHANGED <<remote, env, staging, stack, drive_files, walk>>

\* os.makedirs(...); open(file_path, 'wb'): raises, or leaves an empty file
OpenFile ==
    /\ pc = "open"
    /\ \/ /\ FetchFailed
          /\ UNCHANGED output
       \/ /\ output' = Put(output, drive_files[idx].path, Trunc)
          /\ pc' = "write"
          /\ hist' = Wrote(hist, "RECONCILE", drive_files[idx].path)
          /\ UNCHANGED <<idx, dl>>
    /\ UNCHANGED <<remote, env, staging, stack, drive_files, walk>>

\* mutant of WriteFile: file_handle.seek(0) is missing, so read() returns
\* no bytes and the file is written empty
WriteFileNoSeek ==
    /\ pc = "write"
    /\ \/ /\ FetchFailed
          /\ UNCHANGED output
       \/ /\ output' = Put(output, drive_files[idx].path, Trunc)
          /\ pc' = "examine"
          /\ idx' = idx + 1
          /\ dl' = NoDownload
          /\ UNCHANGED hist
    /\ UNCHANGED <<remote, env, staging, stack, drive_files, walk>>

\* f.write(file_handle.read()): raises with the file left short, or writes
\* the whole buffer; download_file returns True
WriteFile ==
    /\ pc = "write"
    /\ \/ /\ FetchFailed
          /\ UNCHANGED output
       \/ /\ output' = Put(output, drive_files[idx].path, dl.buf)
          /\ pc' = "examine"
          /\ idx' = idx + 1
          /\ dl' = NoDownload
          /\ UNCHANGED hist
    /\ UNCHANGED <<remote, env, staging, stack, drive_files, walk>>

\* ---------------------------------------------------------------- merge
\* the directories of the staging tree, in the top-down order of os.walk
StagingDirs == << <<>>, <<NameX>>, <<NameX, NameY>> >>

FilesIn(tree, d) == {p \in DOMAIN tree : Dirname(p) = d}

\* mutant of Raise: sync() has no except clause, and the `except Exception`
\* of start_continuous_sync leaves the loop
RaiseStops(kind) ==
    /\ pc' = "stopped"
    /\ walk' = NoWalk
    /\ hist' = Fault(hist, kind)

\* an exception leaves sync() through its except clause: "Sync error"
Raise(kind) ==
    /\ pc' = "sleep"
    /\ walk' = NoWalk
    /\ hist' = Fault(hist, kind)

\* the for loop of sync() is over: move_files(local_folder, output_folder)
ReconcileDone ==
    /\ pc = "examine"
    /\ idx > Len(drive_files)
    /\ pc' = "move_dir"
    /\ walk' = [dirs |-> StagingDirs, files |-> <<>>]
    /\ hist' = [Enter(hist, "MERGE") EXCEPT !.atMerge = staging]
    /\ UNCHANGED <<remote, env, output, staging, stack, drive_files, idx, dl>>

\* os.walk yields the next directory; ensure_dir(target_dir)
MoveDir ==
    /\ pc = "move_dir"
    /\ walk.dirs # <<>>
    /\ \/ Raise("mkdir")
       \/ \E files \in Orderings(FilesIn(staging, Head(walk.dirs))) :
            /\ walk' = [dirs |-> Tail(walk.dirs), files |-> files]
            /\ pc' = IF files = <<>> THEN "move_dir" ELSE "move_file"
            /\ UNCHANGED hist
    /\ UNCHANGED <<remote, env, output, staging, stack, drive_files, idx, dl>>

\* mutant of MoveFile: a destination that exists is kept and the staged
\* file is not copied over it
MoveFileKeep ==
    /\ pc = "move_file"
    /\ LET p == Head(walk.files) IN
       IF p \in DOMAIN output
       THEN /\ walk' = [walk EXCEPT !.files = Tail(@)]
            /\ pc' = IF Tail(walk.files) = <<>> THEN "move_dir" ELSE "move_file"
            /\ UNCHANGED <<output, hist>>
       ELSE /\ pc' = "move_copy"
            /\ UNCHANGED <<output, walk, hist>>
    /\ UNCHANGED <<remote, env, staging, stack, drive_files, idx, dl>>

\* if os.path.exists(dst_file_path): os.remove(dst_file_path)
MoveFile ==
    /\ pc = "move_file"
    /\ LET p == Head(walk.files) IN
       IF p \in DOMAIN output
       THEN \/ /\ Raise("remove")
               /\ UNCHANGED output
            \/ /\ output' = Del(output, p)
               /\ pc' = "move_copy"
               /\ hist' = [hist EXCEPT !.removed = @ \cup {p}]
               /\ UNCHANGED walk
       ELSE /\ pc' = "move_copy"
            /\ UNCHANGED <<output, walk, hist>>
    /\ UNCHANGED <<remote, env, staging, stack, drive_files, idx, dl>>

\* shutil.copy2(src_file_path, dst_file_path): raises before the
\* destination is opened, raises with the destination left short, or copies
MoveCopy ==
    /\ pc = "move_copy"
    /\ LET p == Head(walk.files) IN
       \/ /\ Raise("copy")
          /\ UNCHANGED output
       \/ /\ Raise("copy")
          /\ output' = Put(output, p, Trunc)
       \/ /\ p \in DOMAIN staging
          /\ output' = Put(output, p, staging[p])
          /\ walk' = [walk EXCEPT !.files = Tail(@)]
          /\ pc' = IF Tail(walk.files) = <<>> THEN "move_dir" ELSE "move_file"
          /\ hist' = [Wrote(hist, "MERGE", p) EXCEPT
                        !.copied = @ \cup {p},
                        !.merged = Put(@, p, staging[p])]
    /\ UNCHANGED <<remote, env, staging, stack, drive_files, idx, dl>>

\* move_files returns; the second os.walk of sync() starts
MoveDone ==
    /\ pc = "move_dir"
    /\ walk.dirs = <<>>
    /\ pc' = "purge_dir"
    /\ walk' = [dirs |-> StagingDirs, files |-> <<>>]
    /\ hist' = Enter(hist, "PURGE")
    /\ UNCHANGED <<remote, env, output, staging, stack, drive_files, idx, dl>>

\* ---------------------------------------------------------------- purge
PurgeDir ==
    /\ pc = "purge_dir"
    /\ walk.dirs # <<>>
    /\ \E files \in Orderings(FilesIn(staging, Head(walk.dirs))) :
         /\ walk' = [dirs |-> Tail(walk.dirs), files |-> files]
         /\ pc' = IF files = <<>> THEN "purge_dir" ELSE "purge_file"
    /\ UNCHANGED <<remote, env, output, staging, stack, drive_files, idx, dl, hist>>

\* mutant of PurgeFile: os.remove has no try of its own, and its exception
\* leaves sync()
PurgeFileRaises ==
    /\ pc = "purge_file"
    /\ LET p == Head(walk.files) IN
       \/ /\ staging' = Del(staging, p)
          /\ hist' = [hist EXCEPT !.purged = @ \cup {p}]
          /\ walk' = [walk EXCEPT !.files = Tail(@)]
          /\ pc' = IF Tail(walk.files) = <<>> THEN "purge_dir" ELSE "purge_file"
       \/ /\ staging' = staging
          /\ hist' = [Fault(hist, "delete") EXCEPT !.purged = @ \cup {p}]
          /\ walk' = NoWalk
          /\ pc' = "sleep"
    /\ UNCHANGED <<remote, env, output, stack, drive_files, idx, dl>>

\* os.remove(file_path) in its own try: deletes, or logs the error
PurgeFile ==
    /\ pc = "purge_file"
    /\ LET p == Head(walk.files) IN
       /\ \/ /\ staging' = Del(staging, p)
             /\ hist' = [hist EXCEPT
                           !.purged = @ \cup {p},
                           !.uncopied = IF p \in DOMAIN hist.merged
                                           /\ hist.merged[p] = staging[p]
                                        THEN @ ELSE @ \cup {p}]
          \/ /\ staging' = staging
             /\ hist' = [Fault(hist, "delete") EXCEPT !.purged = @ \cup {p}]
       /\ walk' = [walk EXCEPT !.files = Tail(@)]
       /\ pc' = IF Tail(walk.files) = <<>> THEN "purge_dir" ELSE "purge_file"
    /\ UNCHANGED <<remote, env, output, stack, drive_files, idx, dl>>

PurgeDone ==
    /\ pc = "purge_dir"
    /\ walk.dirs = <<>>
    /\ pc' = "upload"
    /\ walk' = NoWalk
    /\ hist' = Enter(hist, "UPLOAD_LOG")
    /\ UNCHANGED <<remote, env, output, staging, stack, drive_files, idx, dl>>

\* ---------------------------------------------------------------- upload
\* mutant of UploadLog: a failed upload is tried once more before sync()
\* returns
UploadLogRetried ==
    /\ pc = "upload"
    /\ \E ok \in BOOLEAN :
         LET h == [hist EXCEPT !.uploads = @ + 1] IN
         /\ hist' = IF ok THEN h ELSE Fault(h, "upload")
         /\ pc' = IF ok \/ hist.uploads > 0 THEN "sleep" ELSE "upload"
    /\ UNCHANGED <<remote, env, output, staging, stack, drive_files, idx, dl, walk>>

\* upload_log_file returns True or False; sync() returns
UploadLog ==
    /\ pc = "upload"
    /\ \E ok \in BOOLEAN :
         LET h == [hist EXCEPT !.uploads = @ + 1] IN
         hist' = IF ok THEN h ELSE Fault(h, "upload")
    /\ pc' = "sleep"
    /\ UNCHANGED <<remote, env, output, staging, stack, drive_files, idx, dl, walk>>

\* ---------------------------------------------------------------- loop
\* mutant of Interrupt: the signal is only noted while a cycle runs, and
\* the cycle goes on
InterruptDeferred ==
    /\ pc # "stopped"
    /\ pc' = IF pc = "sleep" THEN "stopped" ELSE pc
    /\ hist' = [hist EXCEPT !.signal = pc]
    /\ UNCHANGED <<remote, env, output, staging, stack, drive_files, idx, dl, walk>>

\* KeyboardInterrupt: no `except Exception` of download_file, md5,
\* get_drive_files or sync catches it; start_continuous_sync breaks
Interrupt ==
    /\ pc # "stopped"
    /\ pc' = "stopped"
    /\ hist' = [hist EXCEPT !.signal = pc]
    /\ stack' = <<>>
    /\ dl' = NoDownload
    /\ walk' = NoWalk
    /\ UNCHANGED <<remote, env, output, staging, drive_files, idx>>

\* ---------------------------------------------------------------- outside
NoEvents == [changes |-> 0, produced |-> 0]

\* the list call that returned the leaf has been made in this cycle: the
\* item is in a frame of get_drive_files or in the list sync() holds
Seen(l) ==
    \/ \E k \in 1..Len(drive_files) : drive_files[k].id = l
    \/ \E n \in 1..Len(stack) :
          \/ \E k \in 1..Len(stack[n].pending) : stack[n].pending[k].id = l
          \/ \E k \in 1..Len(stack[n].results) : stack[n].results[k].id = l

\* Somebody edits a file on Drive: what files().list reports as its
\* md5Checksum and what get_media delivers change from then on, to the
\* content after the present one.
RemoteChange ==
    /\ pc # "stopped"
    /\ env.changes < MaxChanges
    /\ \E l \in {"n1", "n2", "n3"} :
         /\ \E f \in Folders : \E k \in 1..Len(children[f]) : children[f][k] = l
         /\ content' = [content EXCEPT ![l] = (@ % NContents) + 1]
         /\ hist' = IF Seen(l) THEN [hist EXCEPT !.touched = @ \cup {l}] ELSE hist
    /\ env' = [env EXCEPT !.changes = @ + 1]
    /\ UNCHANGED <<children, hashed, output, staging, pc, stack, drive_files, idx, dl, walk>>

\* An external producer puts a file into the staging tree (self.local_folder),
\* new or in place of one that is there.
Produce ==
    /\ pc # "stopped"
    /\ env.produced < MaxProduced
    /\ \E p \in Paths, c \in Contents :
         /\ p \in DOMAIN staging => staging[p] # c
         /\ staging' = Put(staging, p, c)
    /\ env' = [env EXCEPT !.produced = @ + 1]
    /\ UNCHANGED <<remote, output, pc, stack, drive_files, idx, dl, walk, hist>>

\* The remote trees of the model: every root variant, n1 with or without an
\* md5Checksum, and the second leaf named "a" with every content.
Remotes ==
    { [children |-> [f \in Folders |->
                        CASE f = "root" -> r
                          [] f = "nX" -> <<"nL1", "nY">>
                          [] f = "nY" -> <<"n2", "nD">>
                          [] OTHER -> <<"n4">>],
       content |-> [l \in Leaves |-> IF l = "n3" THEN c ELSE 1],
       hashed |-> h] :
      r \in RootVariants, c \in Contents, h \in {Leaves, Leaves \ {"n1"}} }

\* The local trees a cycle may start from.  The remote X/Y/f holds content 1:
\* the output file there is absent, up to date, or different; a staged file
\* there differs from the remote one.  At path a every combination occurs.
OutputInits ==
    {t \in Trees(Paths, Contents) : PathF \in DOMAIN t => t[PathF] \in {1, NContents}}
StagingInits ==
    {t \in Trees(Paths, Contents) : PathF \in DOMAIN t => t[PathF] = NContents}

Listed(r, l) == \E k \in 1..Len(r.children[Root]) : r.children[Root][k] = l

Init ==
    /\ \E r \in Remotes :
         /\ Listed(r, "n3") \/ r.content["n3"] = 1
         /\ Listed(r, "n1") \/ r.hashed = Leaves
         /\ children = r.children
         /\ content = r.content
         /\ hashed = r.hashed
    /\ output \in OutputInits
    /\ staging \in StagingInits
    /\ pc = "sleep"
    /\ stack = <<>>
    /\ drive_files = <<>>
    /\ idx = 0
    /\ dl = NoDownload
    /\ walk = NoWalk
    /\ hist = NoHist
    /\ env = NoEvents

Next ==
    \/ StartCycle
    \/ ListPage
    \/ ListFails
    \/ Examine
    \/ NextChunk
    \/ OpenFile
    \/ WriteFile
    \/ ReconcileDone
    \/ MoveDir
    \/ MoveFile
    \/ MoveCopy
    \/ MoveDone
    \/ PurgeDir
    \/ PurgeFile
    \/ PurgeDone
    \/ UploadLog
    \/ Interrupt

Spec == Init /\ [][Next]_vars

\* The loop while no interrupt arrives: `while True` of
\* start_continuous_sync with both of its except clauses out of play, since
\* sync() lets no Exception out.
Running ==
    \/ StartCycle
    \/ ListFails
    \/ ListPage
    \/ Examine
    \/ NextChunk
    \/ OpenFile
    \/ WriteFile
    \/ ReconcileDone
    \/ MoveDir
    \/ MoveFile
    \/ MoveCopy
    \/ MoveDone
    \/ PurgeDir
    \/ PurgeFile
    \/ PurgeDone
    \/ UploadLog

\* The states to start from in which no two remote entries have the same
\* relative path and at most the file a is staged.
InitLive == Init /\ ~Listed([children |-> children], "n3") /\ DOMAIN staging \subseteq {PathA}

\* The interpreter goes on: every call returns or raises and time.sleep
\* returns, so a step of the loop that can be taken is taken.
SpecLive == InitLive /\ [][Running]_vars /\ WF_vars(Running)

\* The loop, no interrupt arriving, with the world outside acting: from the
\* states in which the remote root holds the log file and the folder X only, nothing
\* is staged yet and the output tree is empty or holds X/Y/f up to date.
InitEnv ==
    /\ Init
    /\ Len(children[Root]) = 2
    /\ staging = EmptyTree
    /\ output \in {EmptyTree, Put(EmptyTree, PathF, 1)}
NextEnv == Running \/ RemoteChange \/ Produce
SpecEnv == InitEnv /\ [][NextEnv]_vars

\* ================================================================ claims
AllPhases == <<"LIST", "RECONCILE", "MERGE", "PURGE", "UPLOAD_LOG">>
Exams == {hist.examined[k] : k \in 1..Len(hist.examined)}
Entries == {drive_files[k] : k \in 1..Len(drive_files)}

\* the detector found the local file and its computed digest is the entry's
Matched(x) == x.existed /\ x.local # None /\ x.local = x.drive

\* no other listed entry has the relative path of the entry at position i
OnlyAt(i) == \A k \in 1..Len(drive_files) : drive_files[k].path = drive_files[i].path => k = i

\* C1 as stated: for every entry examined in the RECONCILE phase whose local
\* file exists with a computed hash equal to the entry's remote hash,
\* download_file is not called for it and the file at its path is not written
\* in that phase.
CE_C1 ==
    \A x \in Exams :
        Matched(x) => ~x.fetch /\ <<"RECONCILE", x.path>> \notin hist.writes

\* C1 amended: for every such entry download_file is not called for it, and
\* the file at its path is not written in that phase unless another listed
\* entry has the same relative path.
T_C1 ==
    \A x \in Exams :
        Matched(x) =>
            /\ ~x.fetch
            /\ OnlyAt(x.i) => <<"RECONCILE", x.path>> \notin hist.writes

\* an entry was skipped because its local file is up to date, and the
\* RECONCILE phase is over
W_C1 ==
    /\ pc = "move_dir"
    /\ \E x \in Exams : Matched(x) /\ ~x.fetch /\ OnlyAt(x.i) /\ Len(hist.examined) > 1

\* C2: every listed entry that carries no remote content hash is fetched,
\* whatever the state of the local path.
CE_C2 ==
    \A x \in Exams : x.drive = None => x.fetch

\* C3: whenever hashing an existing local file fails, a fetch is issued for
\* the entry, whatever its remote content hash (an absent one included).
CE_C3 ==
    \A x \in Exams : (x.existed /\ x.local = None) => x.fetch

\* the cycle has entered the phase
Entered(phase) == \E k \in 1..Len(hist.phases) : hist.phases[k] = phase

T_C5 ==
    /\ [](hist.failed # {} =>
            /\ \A k \in 1..Len(hist.examined) : hist.examined[k].i = k
            /\ pc \notin {"examine", "download", "open", "write", "stopped"}
                 => Len(hist.examined) = Len(drive_files)
            /\ (pc = "sleep" /\ hist.faults \cap {"mkdir", "remove", "copy"} = {})
                 => hist.phases = AllPhases /\ hist.uploads = 1)
    /\ [][(pc = "sleep" /\ hist.failed # {} /\ pc' # "stopped") => pc' = "list"]_vars

\* the download of the first of three entries failed, the two others were
\* examined, and the cycle ran all its phases
W_C5 ==
    /\ pc = "sleep"
    /\ hist.failed = {1}
    /\ Len(hist.examined) = 3
    /\ hist.phases = AllPhases
    /\ hist.uploads = 1

\* C6: a cycle in which a list call fails (for any folder, any page) ends
\* there and the loop goes to its sleep: no entry is examined or fetched,
\* nothing is copied, removed or purged, no log upload is attempted, and no
\* step of the LIST phase changes the output tree or the staging tree.
T_C6 ==
    /\ []("list" \in hist.faults =>
            /\ pc \in {"sleep", "stopped"}
            /\ hist.phases = <<"LIST">>
            /\ hist.examined = <<>>
            /\ hist.writes = {} /\ hist.removed = {} /\ hist.copied = {}
            /\ hist.purged = {} /\ hist.uploads = 0)
    /\ [][pc = "list" => UNCHANGED <<output, staging>>]_vars
    /\ [][("list" \in hist'.faults /\ "list" \notin hist.faults) => pc' = "sleep"]_vars

\* the list call for a continuation page of the nested folder X failed, with
\* files waiting in the staging tree, and the loop is at its sleep
W_C6 ==
    /\ pc = "sleep"
    /\ hist.listCall = <<"nX", 1>>
    /\ DOMAIN staging = Paths

\* C7: when the copy of one staged file fails, every other file that was in
\* the staging tree is still copied into the output tree in that cycle.
CE_C7 ==
    (pc = "sleep" /\ "copy" \in hist.faults) =>
        Cardinality((DOMAIN hist.atMerge) \ hist.copied) <= 1

\* C8: in every cycle whose LIST phase succeeded (and whose merge pass
\* could create its directories and remove the files it overwrites), the
\* purge has tried to delete every staged file by the end of the cycle,
\* whether or not a copy failed.
CE_C8 ==
    (pc = "sleep" /\ Entered("MERGE") /\ hist.faults \cap {"mkdir", "remove"} = {}) =>
        DOMAIN hist.atMerge \subseteq hist.purged

\* C9: after a cycle that ran all its phases with no list, copy or delete
\* failure, every file that was in the staging tree when the merge started
\* is in the output tree with the staged content, and is no longer in the
\* staging tree.
T_C9 ==
    (pc = "sleep" /\ hist.uploads = 1
       /\ hist.faults \cap {"list", "mkdir", "remove", "copy", "delete"} = {}) =>
        \A p \in DOMAIN hist.atMerge :
            /\ p \in DOMAIN output
            /\ output[p] = hist.atMerge[p]
            /\ p \notin DOMAIN staging

\* such a cycle is over; the staged file a replaced an output file, and the
\* listing has an entry at a with another content, downloaded there in the
\* RECONCILE phase of the same cycle
W_C9 ==
    /\ pc = "sleep" /\ hist.uploads = 1
    /\ hist.faults \cap {"list", "mkdir", "remove", "copy", "delete"} = {}
    /\ PathA \in DOMAIN hist.atMerge
    /\ PathA \in hist.removed
    /\ <<"RECONCILE", PathA>> \in hist.writes
    /\ \E e \in Entries :
         e.path = PathA /\ e.md5Checksum # Hexdigest(hist.atMerge[PathA])

\* every listed entry carries an md5Checksum
AllHashed == \A e \in Entries : e.md5Checksum # None
\* no two listed entries have the same relative path and different hashes
NoClash == \A e1, e2 \in Entries : e1.path = e2.path => e1.md5Checksum = e2.md5Checksum

\* C10 as stated: a cycle that follows a cycle which ran all its phases
\* without a failure writes no output file.
CE_C10 ==
    hist.prev.clean => hist.writes = {}

\* C10 amended: a cycle that follows a cycle which ran all its phases with
\* no list, fetch, copy or delete failure writes no output file, provided
\* every listed entry carries a content hash, no two listed entries share a
\* relative path with different hashes, the previous cycle merged no staged
\* file onto the path of a listed entry of different content, and no hash
\* computation fails in this cycle.
T_C10 ==
    (/\ hist.prev.clean /\ ~hist.prev.overlaid
     /\ AllHashed /\ NoClash
     /\ "hash" \notin hist.faults) =>
        hist.writes = {}

\* the second of two such cycles is over: it examined three entries, found
\* each up to date, and wrote nothing
W_C10 ==
    /\ pc = "sleep" /\ hist.uploads = 1
    /\ hist.prev.clean /\ ~hist.prev.overlaid
    /\ AllHashed /\ NoClash /\ "hash" \notin hist.faults
    /\ Len(hist.examined) = 3
    /\ \A x \in Exams : Matched(x) /\ ~x.fetch
    /\ hist.writes = {}

\* C11: the phases of a cycle occur in the order LIST, RECONCILE, MERGE,
\* PURGE, UPLOAD_LOG, each starting only when the one before has ended: no
\* entry is examined or fetched before the whole listing is there, no staged
\* file is copied before every listed entry has been examined, and no staged
\* file is deleted before the last copy (from the start of the purge on the
\* output tree does not change in that cycle).  A cycle that has ended the
\* PURGE phase and goes on attempts the log upload exactly once: the step
\* after the purge, if not the interrupt, is the one upload attempt; whether
\* it succeeds or fails it changes neither tree and sync() returns.
T_C11 ==
    /\ [](/\ \E n \in 0..Len(AllPhases) : hist.phases = SubSeq(AllPhases, 1, n)
          /\ pc = "list" => drive_files = <<>>
          /\ ~Entered("RECONCILE") =>
                hist.examined = <<>> /\ hist.writes = {} /\ hist.failed = {}
          /\ Entered("MERGE") =>
                /\ Len(hist.examined) = Len(drive_files)
                /\ idx = Len(drive_files) + 1
          /\ ~Entered("MERGE") =>
                hist.copied = {} /\ hist.removed = {} /\ hist.atMerge = EmptyTree
          /\ ~Entered("PURGE") => hist.purged = {}
          /\ ~Entered("UPLOAD_LOG") => hist.uploads = 0
          /\ hist.uploads <= 1
          /\ (pc = "sleep" /\ Entered("UPLOAD_LOG")) => hist.uploads = 1)
    /\ [][(Entered("PURGE") /\ pc' # "list") => output' = output]_vars
    /\ [][(~Entered("PURGE") /\ pc' # "list") => staging' = staging]_vars
    /\ [][(pc = "upload" /\ pc' # "stopped") =>
            /\ pc' = "sleep"
            /\ hist'.uploads = hist.uploads + 1
            /\ UNCHANGED <<output, staging>>]_vars

\* a cycle that fetched an entry, copied a staged file and purged it has
\* ended with its one log upload failed
W_C11 ==
    /\ pc = "sleep"
    /\ hist.phases = AllPhases
    /\ \E x \in Exams : x.fetch
    /\ hist.copied # {} /\ hist.purged # {}
    /\ "upload" \in hist.faults
    /\ hist.uploads = 1

\* C12: cycles never overlap and no failure of a cycle stops the loop: a
\* cycle starts only from the sleep, the loop never stops while no interrupt
\* arrives, every cycle, whatever fails in it, comes to the sleep, and the
\* sleep is always followed by the start of another cycle, so that cycles
\* are started infinitely often.
T_C12 ==
    /\ [][(pc' = "list" /\ pc # "list") => pc = "sleep"]_vars
    /\ [][pc = "sleep" => (pc' = "list" /\ hist'.phases = <<"LIST">>)]_vars
    /\ [](pc # "stopped")
    /\ []<>(pc = "sleep")
    /\ (pc = "sleep") ~> (pc = "list")
    /\ []<><<StartCycle>>_vars

\* a cycle has started after one in which shutil.copy2 failed on the staged
\* file a, left short in the output tree and still staged; no remote entry
\* has that path
W_C12 ==
    /\ pc = "list"
    /\ hist.phases = <<"LIST">>
    /\ ~hist.prev.clean
    /\ Len(children[Root]) = 2
    /\ PathA \in DOMAIN output /\ output[PathA] = Trunc
    /\ PathA \in DOMAIN staging

\* C13: a download that fails at a chunk leaves no partial file: no call of
\* next_chunk, failed or not, changes the output tree, the file is opened
\* and written only when every chunk has been received, and the step at
\* which a chunk fails ends the fetch with the output tree as it was when
\* the fetch was issued (the path still absent, or still holding the content
\* it had).
T_C13 ==
    /\ [][pc = "download" => output' = output]_vars
    /\ [][(pc \in {"download", "open", "write"} /\ output' # output) =>
            dl.received = NChunks]_vars
    /\ [][(pc = "download" /\ hist'.failed # hist.failed) =>
            /\ hist'.failed = hist.failed \cup {idx}
            /\ pc' = "examine" /\ idx' = idx + 1
            /\ output' = output]_vars
    /\ []((pc \in {"download", "open"} /\ OnlyAt(idx)) =>
            LET x == hist.examined[Len(hist.examined)] IN
            /\ x.existed <=> x.path \in DOMAIN output
            /\ (x.existed /\ x.local # None) => Hexdigest(output[x.path]) = x.local)

\* the fetch of the first entry, listed at a with the hash of content 1,
\* failed at a chunk, and the output file a still holds the other content it
\* had
W_C13 ==
    /\ pc = "examine" /\ idx = 2
    /\ hist.failed = {1} /\ "chunk" \in hist.faults
    /\ drive_files[1].path = PathA
    /\ drive_files[1].md5Checksum = Hexdigest(1)
    /\ PathA \in DOMAIN output /\ output[PathA] = NContents

\* download_file has just returned True for the entry before idx
Fetched ==
    /\ pc = "examine"
    /\ hist.examined # <<>>
    /\ LET x == hist.examined[Len(hist.examined)] IN
         x.fetch /\ x.i = idx - 1 /\ x.i \notin hist.failed

\* C14 as stated: right after a successful fetch of an entry listed with a
\* content hash, the hash of the local file is the hash of the listing, also
\* when the remote content was modified after the entry was listed.
CE_C14 ==
    Fetched =>
        LET e == drive_files[idx - 1] IN
        e.md5Checksum # None => Hexdigest(output[e.path]) = e.md5Checksum

\* C14 amended: right after a successful fetch of an entry listed with a
\* content hash, the hash of the local file is the hash of the listing,
\* provided the remote content was not modified between the list call that
\* returned the entry and its download.
T_C14 ==
    Fetched =>
        LET e == drive_files[idx - 1] IN
        (e.md5Checksum # None /\ e.id \notin hist.touched) =>
            Hexdigest(output[e.path]) = e.md5Checksum

\* the remote X/Y/f was modified before it was listed; the fetch has
\* replaced an output file of another content, and the file now has the
\* listed hash
W_C14 ==
    /\ Fetched
    /\ env.changes = 1 /\ hist.touched = {}
    /\ LET e == drive_files[idx - 1]
           x == hist.examined[Len(hist.examined)]
       IN  /\ e.md5Checksum = Hexdigest(NContents)
           /\ x.existed /\ x.local = Hexdigest(1)
           /\ output[e.path] = NContents

\* the remote tree as it is, apart from any listing of it
ChildOf(f, i) == \E k \in 1..Len(children[f]) : children[f][k] = i
Attached(i) == \E f \in Folders : ChildOf(f, i)
Parent(i) == CHOOSE f \in Folders : ChildOf(f, i)

\* the nodes from below the root down to the node itself
RECURSIVE Lineage(_)
Lineage(i) ==
    IF i = Root \/ ~Attached(i) THEN <<>> ELSE Append(Lineage(Parent(i)), i)

\* the node descends from the root
Below(i) == Lineage(i) # <<>> /\ Parent(Lineage(i)[1]) = Root

\* the names of the ancestor folders below the root, then the own name
RelPath(i) == [k \in 1..Len(Lineage(i)) |-> name[Lineage(i)[k]]]

\* the node or a folder above it has a name that begins with the log prefix
LogNamed(i) ==
    \E k \in 1..Len(Lineage(i)) : StartsWith(name[Lineage(i)[k]], LogPrefix)

Returned == {<<drive_files[k].id, drive_files[k].path>> : k \in 1..Len(drive_files)}

\* get_drive_files has just returned its list to sync()
Listing == pc = "examine" /\ idx = 1

\* C15 as stated: what get_drive_files returns is exactly the non-folder
\* descendants of the root, each with the names of its ancestor folders
\* below the root followed by its own name as relative path.
CE_C15 ==
    Listing =>
        Returned = {<<l, RelPath(l)>> : l \in {i \in Leaves : Below(i)}}

\* C15 amended: what get_drive_files returns is exactly, and each once, the
\* non-folder descendants of the root that neither have a name beginning
\* with 'drive_sync.log' nor lie below a folder with such a name, each with
\* the names of its ancestor folders below the root followed by its own
\* name as relative path; no folder is returned; and this is so for every
\* way the remote splits the children of the folders into pages.
T_C15 ==
    Listing =>
        /\ Returned = {<<l, RelPath(l)>> : l \in {i \in Leaves : Below(i) /\ ~LogNamed(i)}}
        /\ Len(drive_files) = Cardinality(Returned)
        /\ \A e \in Entries : e.mimeType # FolderMime /\ e.id \notin Folders

\* the listing of the tree with two leaves named a at the root and the leaf
\* X/Y/f has just been returned
W_C15 ==
    /\ pc = "examine" /\ idx = 1
    /\ Len(drive_files) = 3
    /\ \E e \in Entries : e.id = "n2" /\ e.path = PathF
    /\ \E e \in Entries : e.id = "n3" /\ e.path = PathA

\* C16: no remote entry whose name begins with 'drive_sync.log' is ever in
\* what the lister has collected or returned, in any frame of its recursion,
\* nor is one ever examined or passed to download_file, whether the entry is
\* a child of the root or of a nested folder and whichever page returns it.
T_C16 ==
    /\ \A e \in Entries : ~StartsWith(e.name, LogPrefix)
    /\ \A n \in 1..Len(stack) : \A k \in 1..Len(stack[n].results) :
         ~StartsWith(stack[n].results[k].name, LogPrefix)
    /\ \A x \in Exams : ~StartsWith(x.path[Len(x.path)], LogPrefix)
    /\ pc \in {"download", "open", "write"} =>
         ~StartsWith(drive_files[idx].name, LogPrefix)

\* the remote holds drive_sync.log at the root and drive_sync.log.1 in the
\* folder X; the tree has been listed and all its entries examined, one of
\* them fetched
W_C16 ==
    /\ pc = "examine" /\ idx > Len(drive_files)
    /\ ChildOf(Root, "nL") /\ ChildOf("nX", "nL1")
    /\ Len(hist.examined) = 3
    /\ \E x \in Exams : x.fetch /\ x.path = PathF

\* C17: a failure to delete one staged file is contained.  The step at which
\* the delete fails changes neither tree and leaves the purge walk going;
\* and a cycle in which a delete failed has, at its end, tried to delete
\* every file that was staged, deleted those whose delete did not fail, and
\* made its one log upload.
T_C17 ==
    /\ [][(pc = "purge_file" /\ pc' # "stopped" /\ staging' = staging) =>
            /\ "delete" \in hist'.faults
            /\ pc' \in {"purge_file", "purge_dir"}
            /\ walk'.files = Tail(walk.files) /\ walk'.dirs = walk.dirs
            /\ output' = output]_vars
    /\ []((pc = "sleep" /\ "delete" \in hist.faults) =>
            /\ hist.purged = DOMAIN hist.atMerge
            /\ hist.phases = AllPhases
            /\ hist.uploads = 1)

\* two files were staged; the delete of one failed, the other was deleted
\* all the same, and the log upload was made
W_C17 ==
    /\ pc = "sleep"
    /\ "delete" \in hist.faults
    /\ DOMAIN hist.atMerge = Paths
    /\ hist.purged = Paths
    /\ Cardinality(DOMAIN staging) = 1
    /\ hist.uploads = 1

\* the output file at p has the hash of the remote leaf l
Mirrors(l, p) == p \in DOMAIN output /\ Hexdigest(output[p]) = Hexdigest(content[l])

\* every remote leaf that the listing reports with a content hash has an
\* output file of that hash
Converged ==
    /\ ("n1" \in hashed /\ ChildOf(Root, "n1")) => Mirrors("n1", PathA)
    /\ Mirrors("n2", PathF)

\* steps of a cycle: a list call raises, a download fails, md5 of a local
\* file fails, a download is issued for an entry that carries a hash
ListFailStep == pc = "list" /\ "list" \in hist'.faults
FetchFailStep == ~(hist'.failed \subseteq hist.failed)
HashFailStep ==
    /\ Len(hist'.examined) = Len(hist.examined) + 1
    /\ LET x == hist'.examined[Len(hist'.examined)] IN x.existed /\ x.local = None
FetchHashedStep ==
    pc = "examine" /\ pc' = "download" /\ drive_files[idx].md5Checksum # None

\* C18 as stated: with the remote tree unchanging and relative paths unique,
\* if from some point on the staging tree stays empty and no list call and
\* no download fails, then from some point on every remote leaf with a
\* content hash has an output file of that hash and no download is issued
\* for such an entry any more.
CE_C18 ==
    (/\ <>[](staging = EmptyTree)
     /\ <>[][~ListFailStep /\ ~FetchFailStep]_vars)
    => (/\ <>[]Converged
        /\ <>[][~FetchHashedStep]_vars)

\* C18 amended: the same, provided that from some point on no hash
\* computation of a local file fails either (and the loop keeps running, no
\* interrupt arriving).
T_C18 ==
    (/\ <>[](staging = EmptyTree)
     /\ <>[][~ListFailStep /\ ~FetchFailStep /\ ~HashFailStep]_vars)
    => (/\ <>[]Converged
        /\ <>[][~FetchHashedStep]_vars)

\* a cycle without any failure has ended with the staging tree empty: it
\* found an output file whose hash differed from the listed one, fetched
\* it, and every hashed remote leaf now has its output file
W_C18 ==
    /\ pc = "sleep"
    /\ hist.uploads = 1 /\ hist.faults = {}
    /\ staging = EmptyTree
    /\ "n1" \in hashed /\ ChildOf(Root, "n1")
    /\ \E x \in Exams : x.fetch /\ x.existed /\ x.local # None /\ x.drive # None
    /\ Converged

\* C19: the purge deletes no staged file whose content the merge of the
\* same cycle has not copied into the output tree, also when an external
\* producer adds or replaces staged files at any moment.
CE_C19 ==
    hist.uncopied = {}

\* C20: every path that is a file of the output tree when a cycle starts is
\* a file of the output tree when the cycle has ended, whatever happened in
\* the cycle.
CE_C20 ==
    pc = "sleep" => hist.atStart \subseteq DOMAIN output

====
